---- MODULE Spec2Model ----
(***************************************************************************)
(* Model of StreamlitGeminiGPT/app.py: one browser session of the chat    *)
(* page.  Text is a TLC string; the prompt is kept as the sequence of the *)
(* pieces the f-strings concatenate, and Render joins them into the one   *)
(* string that is sent.                                                    *)
(***************************************************************************)
EXTENDS Integers, Sequences, FiniteSets, TLC

VARIABLES
    credential,             \* GEMINI_API_KEY in the process environment
    model,                  \* st.session_state.model
    messages,               \* st.session_state.messages
    gpt_name,               \* st.session_state.gpt_name
    gpt_description,        \* st.session_state.gpt_description
    gpt_instructions,       \* st.session_state.gpt_instructions
    pc,                     \* position of the script run
    prompt,                 \* local of render_chat_interface
    conversation_context,   \* local of get_ai_response
    invoked,                \* generate_content was called in this interaction
    full_response,          \* local of render_chat_interface
    shown,                  \* what the assistant bubble shows (st.write / response_placeholder)
    ai_message,             \* local of render_chat_interface
    consumed,               \* history: chunk texts pulled from the response so far
    outcome,                \* history: how the interaction in flight ended
    epoch,                  \* history: number of Clear Conversation clicks so far
    created,                \* history: created[i] is the epoch messages[i] was appended in
    context_epochs,         \* history: epochs of the turns the context loop read
    discarded               \* history: number of turns Clear Conversation removed

vars == <<credential, model, messages, gpt_name, gpt_description, gpt_instructions,
          pc, prompt, conversation_context, invoked, full_response, shown,
          ai_message, consumed, outcome, epoch, created, context_epochs, discarded>>

config == <<gpt_name, gpt_description, gpt_instructions>>

locals == <<prompt, conversation_context, invoked, full_response, shown,
            ai_message, consumed, outcome, context_epochs>>

----------------------------------------------------------------------------
(* Bounds of the model *)

MaxTurns == 4       \* a message is accepted while the turn pair still fits
MaxFrags == 2       \* chunks one response delivers at most
MaxResets == 1      \* Clear Conversation clicks
MaxHist == 12       \* history length handed to get_ai_response directly

(* Program constants *)

ContextWindow == 10

DefaultName == "Custom GPT"
DefaultDescription == "A helpful AI assistant"
DefaultInstructions ==
    "You are a helpful AI assistant. Respond to user queries in a helpful and informative manner."

NotConfiguredMsg == "Error: Gemini API not configured properly. Please check your API key."
InvokeErrorPrefix == "Error: "
StreamErrorPrefix == "Error generating response: "
Cursor == "▊"

(* Input sets *)

Credentials == {"absent", "valid"}
Names == {DefaultName, "Terse Bot"}
Descriptions == {DefaultDescription}
Instructions == {DefaultInstructions, "Be terse."}
Prompts == {"Hi", "Why?"}
Frags == {"", "Hel", "lo"}
Details == {"boom"}
IndexErrorDetail == "list index out of range"
HistTurns == {[role |-> "user", content |-> "Hi"],
              [role |-> "assistant", content |-> "Yo"]}

NoMessage == [role |-> "none", content |-> ""]

----------------------------------------------------------------------------
(* Pure helpers *)

Min(a, b) == IF a < b THEN a ELSE b
Max(a, b) == IF a > b THEN a ELSE b

Last(s) == s[Len(s)]

\* s[-n:]
Tail_n(s, n) == SubSeq(s, Max(1, Len(s) - n + 1), Len(s))

\* the string a sequence of pieces concatenates to
RECURSIVE Render(_)
Render(t) == IF t = <<>> THEN "" ELSE Head(t) \o Render(Tail(t))

RoleLabel(msg) == IF msg.role = "user" THEN "Human" ELSE "Assistant"

\* one pass of the loop body: conversation_context += f"{role}: {msg['content']}\n"
HistoryLine(msg) == <<RoleLabel(msg), ": ", msg.content, "\n">>

\* for msg in messages[-10:]: ...
RECURSIVE AddHistory(_, _)
AddHistory(ctx, slice) ==
    IF slice = <<>> THEN ctx
    ELSE AddHistory(ctx \o HistoryLine(Head(slice)), Tail(slice))

ContextHeader(instructions) == <<"Instructions: ", instructions, "\n", "\n">>

\* variant: the latest message is not written again, only the marker
LatestLine_MarkerOnly(msgs) == <<"Assistant", ":">>

LatestLine(msgs) == <<"Human", ": ", Last(msgs).content, "\n", "Assistant", ":">>

\* variant: the slice is one turn short
BuildContext_ShortWindow(msgs, instructions) ==
    AddHistory(ContextHeader(instructions), Tail_n(msgs, ContextWindow - 1))
        \o LatestLine(msgs)

\* conversation_context as line 61 leaves it; msgs is non-empty
BuildContext(msgs, instructions) ==
    AddHistory(ContextHeader(instructions), Tail_n(msgs, ContextWindow))
        \o LatestLine(msgs)

StatusConnected == model = "handle"

----------------------------------------------------------------------------
Init ==
    /\ credential \in Credentials
    /\ model = "unset"
    /\ messages = <<>>
    /\ gpt_name = "unset"
    /\ gpt_description = "unset"
    /\ gpt_instructions = "unset"
    /\ pc = "start"
    /\ prompt = ""
    /\ conversation_context = <<>>
    /\ invoked = FALSE
    /\ full_response = ""
    /\ shown = ""
    /\ ai_message = NoMessage
    /\ consumed = <<>>
    /\ outcome = "none"
    /\ epoch = 0
    /\ created = <<>>
    /\ context_epochs = <<>>
    /\ discarded = 0

\* configure_gemini: the key read is never empty (the shown stands in for a
\* missing one), and whether the library calls raise is the library's choice
configure_gemini(raises) == IF raises THEN "None" ELSE "handle"

\* first script run of the session
initialize_session_state(raises) ==
    /\ pc = "start"
    /\ messages' = <<>>
    /\ gpt_name' = DefaultName
    /\ gpt_description' = DefaultDescription
    /\ gpt_instructions' = DefaultInstructions
    /\ model' = configure_gemini(raises)
    /\ pc' = "idle"
    /\ UNCHANGED <<credential, locals, epoch, created, discarded>>


\* render_sidebar: the three inputs, on a run in which one of them was edited
EditConfiguration(name, description, instructions) ==
    /\ pc = "idle"
    /\ <<name, description, instructions>> # config
    /\ gpt_name' = name
    /\ gpt_description' = description
    /\ gpt_instructions' = instructions
    /\ UNCHANGED <<credential, model, messages, pc, locals, epoch, created, discarded>>

\* variant: the button reruns without emptying the list
ClearConversation_KeepsTurns ==
    /\ pc = "idle"
    /\ epoch < MaxResets
    /\ epoch' = epoch + 1
    /\ UNCHANGED <<credential, model, messages, config, pc, locals, created, discarded>>

\* render_sidebar: the Clear Conversation button
ClearConversation ==
    /\ pc = "idle"
    /\ epoch < MaxResets
    /\ messages' = <<>>
    /\ created' = <<>>
    /\ epoch' = epoch + 1
    /\ discarded' = discarded + Len(messages)
    /\ UNCHANGED <<credential, model, config, pc, locals>>

\* variant: the user turn is shown but not appended before the call
SubmitPrompt_NoAppend(p) ==
    /\ pc = "idle"
    /\ Len(messages) + 2 <= MaxTurns
    /\ prompt' = p
    /\ pc' = "call"
    /\ UNCHANGED <<credential, model, messages, config, conversation_context, invoked,
                   full_response, shown, ai_message, consumed, outcome,
                   epoch, created, context_epochs, discarded>>

\* render_chat_interface: a message was typed; the user turn is appended
SubmitPrompt(p) ==
    /\ pc = "idle"
    /\ Len(messages) + 2 <= MaxTurns
    /\ prompt' = p
    /\ messages' = Append(messages, [role |-> "user", content |-> p])
    /\ created' = Append(created, epoch)
    /\ pc' = "call"
    /\ UNCHANGED <<credential, model, config, conversation_context, invoked,
                   full_response, shown, ai_message, consumed, outcome,
                   epoch, context_epochs, discarded>>

\* variant: no early return; the call on None raises inside the try
ReturnNotConfigured_NoGuard ==
    /\ pc = "call"
    /\ model = "None"
    /\ conversation_context' =
            IF messages = <<>> THEN <<>> ELSE BuildContext(messages, gpt_instructions)
    /\ shown' = InvokeErrorPrefix \o "'NoneType' object has no attribute 'generate_content'"
    /\ ai_message' = [role |-> "assistant", content |-> shown']
    /\ outcome' = "invoke_failed"
    /\ pc' = "failed"
    /\ UNCHANGED <<credential, model, messages, config, prompt, invoked,
                   full_response, consumed, epoch, created, context_epochs, discarded>>

\* get_ai_response, model is None: the fixed string, shown and kept as ai_message
ReturnNotConfigured ==
    /\ pc = "call"
    /\ model = "None"
    /\ shown' = NotConfiguredMsg
    /\ ai_message' = [role |-> "assistant", content |-> NotConfiguredMsg]
    /\ outcome' = "unconfigured"
    /\ pc' = "failed"
    /\ UNCHANGED <<credential, model, messages, config, prompt, conversation_context,
                   invoked, full_response, consumed, epoch, created, context_epochs, discarded>>

\* get_ai_response, the try block up to the built context; messages[-1] of an
\* empty list raises IndexError, which the except turns into the returned string
PrepareContext ==
    /\ pc = "call"
    /\ model # "None"
    /\ IF messages = <<>>
       THEN /\ shown' = InvokeErrorPrefix \o IndexErrorDetail
            /\ ai_message' = [role |-> "assistant",
                              content |-> InvokeErrorPrefix \o IndexErrorDetail]
            /\ outcome' = "context_failed"
            /\ pc' = "failed"
            /\ UNCHANGED <<conversation_context, context_epochs>>
       ELSE /\ conversation_context' = BuildContext(messages, gpt_instructions)
            /\ context_epochs' = Tail_n(created, ContextWindow)
            /\ pc' = "built"
            /\ UNCHANGED <<shown, ai_message, outcome>>
    /\ UNCHANGED <<credential, model, messages, config, prompt, invoked,
                   full_response, consumed, epoch, created, discarded>>

\* variant: no except around the call; the exception ends the run
GenerateRaises_Propagates(detail) ==
    /\ pc = "built"
    /\ invoked' = TRUE
    /\ outcome' = "invoke_failed"
    /\ pc' = "crashed"
    /\ UNCHANGED <<credential, model, messages, config, prompt, conversation_context,
                   full_response, shown, ai_message, consumed, epoch, created,
                   context_epochs, discarded>>

\* generate_content raises: the except returns "Error: <detail>", a str, which
\* is shown and kept as ai_message
GenerateRaises(detail) ==
    /\ pc = "built"
    /\ invoked' = TRUE
    /\ shown' = InvokeErrorPrefix \o detail
    /\ ai_message' = [role |-> "assistant", content |-> InvokeErrorPrefix \o detail]
    /\ outcome' = "invoke_failed"
    /\ pc' = "failed"
    /\ UNCHANGED <<credential, model, messages, config, prompt, conversation_context,
                   full_response, consumed, epoch, created, context_epochs, discarded>>

\* generate_content returns the response handle; the caller starts the loop
\* with an empty shown and full_response = ""
GenerateReturns ==
    /\ pc = "built"
    /\ credential = "valid"
    /\ invoked' = TRUE
    /\ full_response' = ""
    /\ shown' = ""
    /\ pc' = "streaming"
    /\ UNCHANGED <<credential, model, messages, config, prompt, conversation_context,
                   ai_message, consumed, outcome, epoch, created, context_epochs, discarded>>

\* what stream_response yields for one chunk: nothing when chunk.text is empty
YieldOf(text) == IF text # "" THEN <<text>> ELSE <<>>

\* variant: = instead of +=
Accumulate_Overwrites(acc, chunk) == chunk

\* the loop body of render_chat_interface for one yielded value
Accumulate(acc, chunk) == acc \o chunk

\* one chunk pulled from the response
ConsumeChunk(text) ==
    /\ pc = "streaming"
    /\ Len(consumed) < MaxFrags
    /\ consumed' = Append(consumed, text)
    /\ IF YieldOf(text) # <<>>
       THEN /\ full_response' = Accumulate(full_response, Head(YieldOf(text)))
            /\ shown' = full_response' \o Cursor
       ELSE UNCHANGED <<full_response, shown>>
    /\ UNCHANGED <<credential, model, messages, config, pc, prompt,
                   conversation_context, invoked, ai_message, outcome, epoch,
                   created, context_epochs, discarded>>

\* the response is exhausted: the loop ends
StreamExhausted ==
    /\ pc = "streaming"
    /\ shown' = full_response
    /\ ai_message' = [role |-> "assistant", content |-> full_response]
    /\ outcome' = "complete"
    /\ pc' = "complete"
    /\ UNCHANGED <<credential, model, messages, config, prompt, conversation_context,
                   invoked, full_response, consumed, epoch, created, context_epochs, discarded>>

\* the response raises: stream_response yields the error text as one more
\* value and ends; the loop adds it to full_response like any other value
StreamRaises(detail) ==
    /\ pc = "streaming"
    /\ full_response' = Accumulate(full_response, StreamErrorPrefix \o detail)
    /\ shown' = full_response'
    /\ ai_message' = [role |-> "assistant", content |-> full_response']
    /\ outcome' = "stream_failed"
    /\ pc' = "failed"
    /\ UNCHANGED <<credential, model, messages, config, prompt, conversation_context,
                   invoked, consumed, epoch, created, context_epochs, discarded>>

\* variant: the rerun happens before the append
StoreTurn_DropsTurn ==
    /\ pc \in {"complete", "failed"}
    /\ pc' = "idle"
    /\ prompt' = ""
    /\ conversation_context' = <<>>
    /\ invoked' = FALSE
    /\ full_response' = ""
    /\ shown' = ""
    /\ ai_message' = NoMessage
    /\ consumed' = <<>>
    /\ outcome' = "none"
    /\ context_epochs' = <<>>
    /\ UNCHANGED <<credential, model, messages, config, epoch, created, discarded>>

\* the assistant turn is appended and the script reruns: the locals are gone
StoreTurn ==
    /\ pc \in {"complete", "failed"}
    /\ messages' = Append(messages, ai_message)
    /\ created' = Append(created, epoch)
    /\ pc' = "idle"
    /\ prompt' = ""
    /\ conversation_context' = <<>>
    /\ invoked' = FALSE
    /\ full_response' = ""
    /\ shown' = ""
    /\ ai_message' = NoMessage
    /\ consumed' = <<>>
    /\ outcome' = "none"
    /\ context_epochs' = <<>>
    /\ UNCHANGED <<credential, model, config, epoch, discarded>>

Next ==
    \/ \E raises \in BOOLEAN : initialize_session_state(raises)
    \/ \E n \in Names, d \in Descriptions, i \in Instructions : EditConfiguration(n, d, i)
    \/ ClearConversation
    \/ \E p \in Prompts : SubmitPrompt(p)
    \/ ReturnNotConfigured
    \/ PrepareContext
    \/ \E detail \in Details : GenerateRaises(detail)
    \/ GenerateReturns
    \/ \E text \in Frags : ConsumeChunk(text)
    \/ StreamExhausted
    \/ \E detail \in Details : StreamRaises(detail)
    \/ StoreTurn

Spec == Init /\ [][Next]_vars

----------------------------------------------------------------------------
(* get_ai_response on its own: any history, any instructions, either model *)

CtxInit ==
    /\ credential = "valid"
    /\ model \in {"None", "handle"}
    /\ messages = <<>>
    /\ gpt_name = DefaultName
    /\ gpt_description = DefaultDescription
    /\ gpt_instructions \in Instructions
    /\ pc = "input"
    /\ prompt = ""
    /\ conversation_context = <<>>
    /\ invoked = FALSE
    /\ full_response = ""
    /\ shown = ""
    /\ ai_message = NoMessage
    /\ consumed = <<>>
    /\ outcome = "none"
    /\ epoch = 0
    /\ created = <<>>
    /\ context_epochs = <<>>
    /\ discarded = 0

\* the argument messages grows by one turn of either role
AddTurn(turn) ==
    /\ pc = "input"
    /\ Len(messages) < MaxHist
    /\ messages' = Append(messages, turn)
    /\ created' = Append(created, epoch)
    /\ UNCHANGED <<credential, model, config, pc, locals, epoch, discarded>>

\* get_ai_response(messages, instructions) is entered
CallGetAiResponse ==
    /\ pc = "input"
    /\ pc' = "call"
    /\ UNCHANGED <<credential, model, messages, config, locals, epoch, created,
                   discarded>>

CtxNext ==
    \/ \E turn \in HistTurns : AddTurn(turn)
    \/ CallGetAiResponse
    \/ ReturnNotConfigured
    \/ PrepareContext
    \/ \E detail \in Details : GenerateRaises(detail)
    \/ GenerateReturns

SpecCtx == CtxInit /\ [][CtxNext]_vars

----------------------------------------------------------------------------
(* Helpers of the properties *)

\* the lines of a context: the runs of pieces between "\n" pieces
RECURSIVE SplitLines(_, _)
SplitLines(t, line) ==
    IF t = <<>> THEN <<line>>
    ELSE IF Head(t) = "\n" THEN <<line>> \o SplitLines(Tail(t), <<>>)
    ELSE SplitLines(Tail(t), Append(line, Head(t)))

LinesOf(t) == SplitLines(t, <<>>)

AssistantMarker == <<"Assistant", ":">>

RolePrefixed(turn) ==
    IF turn.role = "user" THEN <<"Human", ": ", turn.content>>
    ELSE <<"Assistant", ": ", turn.content>>

HasText(chunks) == \E i \in DOMAIN chunks : chunks[i] # ""

StreamErrors == {StreamErrorPrefix \o d : d \in Details}
InvokeErrors == {InvokeErrorPrefix \o d : d \in Details}

Phase(p) ==
    CASE p \in {"idle", "call"} -> "IDLE"
      [] p = "built" -> "CONTEXT_BUILT"
      [] p = "streaming" -> "STREAMING"
      [] p = "complete" -> "COMPLETE"
      [] p = "failed" -> "FAILED"
      [] OTHER -> "NONE"

\* user, assistant, user, assistant, ...
Alternates(msgs) ==
    \A i \in DOMAIN msgs :
        msgs[i].role = IF i % 2 = 1 THEN "user" ELSE "assistant"

----------------------------------------------------------------------------
(* C1: with the model None, get_ai_response returns exactly the fixed      *)
(* not-configured string whatever the history and the instructions, and    *)
(* generate_content is not called: no context is built, nothing streams.   *)
C1_NotConfiguredFixedError ==
    model = "None" =>
        /\ ~invoked
        /\ pc \notin {"built", "streaming", "complete"}
        /\ conversation_context = <<>>
        /\ pc = "failed" =>
            /\ outcome = "unconfigured"
            /\ ai_message = [role |-> "assistant", content |-> NotConfiguredMsg]

C1_Witness ==
    /\ model = "None"
    /\ pc = "failed"
    /\ Len(messages) > ContextWindow
    /\ gpt_instructions = "Be terse."
    /\ ai_message.content = NotConfiguredMsg

(* C2: with no credential in the environment, initialisation leaves the    *)
(* session not configured: model None, status not connected, and no later  *)
(* request reaches generate_content.                                       *)
C2_AbsentCredentialNotConfigured ==
    (credential = "absent" /\ pc # "start") =>
        /\ model = "None"
        /\ ~StatusConnected
        /\ ~invoked

(* C3: for a non-empty history the context is the instructions header, a   *)
(* blank line, min(10, len) role-prefixed lines for the last 10 turns in   *)
(* order, the line "Human: <content of the final turn>" once more, and one *)
(* trailing "Assistant:" marker; no older turn has a line.                 *)
C3_ContextStructure ==
    pc = "built" =>
        LET lines == LinesOf(conversation_context)
            n == Len(messages)
            k == Min(ContextWindow, n)
        IN  /\ n > 0
            /\ Len(lines) = k + 4
            /\ lines[1] = <<"Instructions: ", gpt_instructions>>
            /\ lines[2] = <<>>
            /\ \A j \in 1..k : lines[2 + j] = RolePrefixed(messages[n - k + j])
            /\ lines[k + 3] = <<"Human", ": ", messages[n].content>>
            /\ lines[k + 4] = AssistantMarker
            /\ Cardinality({i \in DOMAIN lines : lines[i] = AssistantMarker}) = 1

C3_Witness ==
    /\ pc = "built"
    /\ Len(messages) = ContextWindow + 2
    /\ messages[1].role = "user"
    /\ messages[2].role = "user"
    /\ \A i \in 3..Len(messages) : messages[i].role = "assistant"
    /\ \A i \in DOMAIN conversation_context : conversation_context[i] # "Hi"

(* C4 as stated: instructions "Be terse." and the one turn {user, "Hi"}    *)
(* give exactly "Instructions: Be terse.\n\nHuman: Hi\nAssistant:".        *)
C4_ExampleSingleLine ==
    (/\ pc = "built"
     /\ gpt_instructions = "Be terse."
     /\ messages = <<[role |-> "user", content |-> "Hi"]>>) =>
        Render(conversation_context) = "Instructions: Be terse.\n\nHuman: Hi\nAssistant:"

(* C4 amended: instructions "Be terse." and the one turn {user, "Hi"} give *)
(* exactly "Instructions: Be terse.\n\nHuman: Hi\nHuman: Hi\nAssistant:":  *)
(* the turn has its history line and the line of the latest message.       *)
C4_ExampleTwoLines ==
    (/\ pc = "built"
     /\ gpt_instructions = "Be terse."
     /\ messages = <<[role |-> "user", content |-> "Hi"]>>) =>
        Render(conversation_context) =
            "Instructions: Be terse.\n\nHuman: Hi\nHuman: Hi\nAssistant:"

C4_Witness ==
    /\ pc = "built"
    /\ gpt_instructions = "Be terse."
    /\ messages = <<[role |-> "user", content |-> "Hi"]>>
    /\ Len(conversation_context) = 14

(* C5: when the response fails after chunks with text, the assistant turn  *)
(* kept for the interaction is exactly "Error generating response:         *)
(* <detail>", without the text accumulated before it.                      *)
C5_StoredTurnIsErrorOnly ==
    (outcome = "stream_failed" /\ HasText(consumed)) =>
        ai_message.content \in StreamErrors

(* C6: while a response has not failed, the accumulator is the             *)
(* concatenation in order of the chunk texts pulled so far, empty texts    *)
(* adding nothing; the text shown follows it; and the assistant turn       *)
(* stored at the end is that concatenation.                                *)
C6_AccumulatorIsConcatenation ==
    /\ [](pc \in {"streaming", "complete"} =>
            /\ full_response = Render(consumed)
            /\ shown = IF pc = "streaming" /\ HasText(consumed)
                       THEN Render(consumed) \o Cursor
                       ELSE Render(consumed))
    /\ [][(pc = "complete" /\ pc' # pc) =>
            messages' = Append(messages, [role |-> "assistant",
                                          content |-> Render(consumed)])]_vars

C6_Witness ==
    /\ pc = "complete"
    /\ consumed = <<"Hel", "lo">>
    /\ ai_message.content = "Hello"

(* C7: Clear Conversation empties the conversation and leaves the          *)
(* configuration and the model as they were, and every context built       *)
(* afterwards reads only turns appended since the last clear.              *)
C7_ResetForgetsEarlierTurns ==
    /\ [][epoch' # epoch =>
            /\ messages' = <<>>
            /\ config' = config
            /\ model' = model]_vars
    /\ [](pc = "built" =>
            /\ Len(context_epochs) = Min(ContextWindow, Len(messages))
            /\ \A i \in DOMAIN context_epochs : context_epochs[i] = epoch)

C7_Witness ==
    /\ pc = "built"
    /\ epoch > 0
    /\ discarded > 0
    /\ context_epochs # <<>>

(* C8: when generate_content raises, get_ai_response returns "Error:       *)
(* <detail>"; that string is the assistant turn, nothing was streamed, and *)
(* the run ends by storing it and going back to idle with the model and    *)
(* the configuration as they were.                                         *)
C8_InvocationFailureIsStored ==
    /\ [](outcome = "invoke_failed" =>
            /\ pc = "failed"
            /\ ai_message.role = "assistant"
            /\ ai_message.content \in InvokeErrors
            /\ consumed = <<>>
            /\ full_response = ""
            /\ ENABLED StoreTurn)
    /\ [][(outcome = "invoke_failed" /\ pc' # pc) =>
            /\ pc' = "idle"
            /\ messages' = Append(messages, ai_message)
            /\ model' = model
            /\ config' = config]_vars

C8_Witness ==
    /\ pc = "idle"
    /\ Len(messages) = 4
    /\ messages[2].content \in InvokeErrors
    /\ messages[4].content = "Hello"

(* C9: whenever get_ai_response is entered or at work, the history is not  *)
(* empty and its final turn is the user turn just submitted.               *)
C9_CallSeesSubmittedTurn ==
    pc \in {"call", "built"} =>
        /\ messages # <<>>
        /\ Last(messages) = [role |-> "user", content |-> prompt]

C9_Witness ==
    /\ pc = "call"
    /\ discarded > 0
    /\ Len(messages) = 1
    /\ prompt = "Why?"

(* C10 as stated: every cycle, whatever its outcome, goes IDLE ->          *)
(* CONTEXT_BUILT -> STREAMING -> (COMPLETE | FAILED) -> IDLE and appends   *)
(* one user turn then one assistant turn, so the idle conversation         *)
(* alternates user, assistant and has even length.                         *)
PhaseStepAsStated ==
    Phase(pc') # Phase(pc) =>
        <<Phase(pc), Phase(pc')>> \in
            {<<"NONE", "IDLE">>,
             <<"IDLE", "CONTEXT_BUILT">>,
             <<"CONTEXT_BUILT", "STREAMING">>,
             <<"STREAMING", "COMPLETE">>,
             <<"STREAMING", "FAILED">>,
             <<"COMPLETE", "IDLE">>,
             <<"FAILED", "IDLE">>}

TurnStep ==
    messages' # messages =>
        \/ messages' = <<>> /\ pc = "idle" /\ pc' = "idle"
        \/ /\ pc = "idle" /\ pc' = "call"
           /\ Len(messages') = Len(messages) + 1
           /\ SubSeq(messages', 1, Len(messages)) = messages
           /\ Last(messages').role = "user"
        \/ /\ Phase(pc) \in {"COMPLETE", "FAILED"} /\ pc' = "idle"
           /\ Len(messages') = Len(messages) + 1
           /\ SubSeq(messages', 1, Len(messages)) = messages
           /\ Last(messages').role = "assistant"

CycleTurns ==
    /\ (pc = "call" /\ pc' # pc) => messages' = messages
    /\ (Phase(pc) \in {"CONTEXT_BUILT", "STREAMING"}) => messages' = messages
    /\ (Phase(pc) \in {"COMPLETE", "FAILED"} /\ pc' # pc) =>
            pc' = "idle" /\ Len(messages') = Len(messages) + 1

IdleAlternates ==
    pc = "idle" => Len(messages) % 2 = 0 /\ Alternates(messages)

C10_EveryCycleStreams ==
    /\ [][PhaseStepAsStated /\ TurnStep /\ CycleTurns]_vars
    /\ []IdleAlternates

(* C10 amended: every cycle appends one user turn then one assistant turn  *)
(* and leaves earlier turns alone, so the idle conversation alternates     *)
(* user, assistant and has even length; a cycle whose model call succeeds  *)
(* goes IDLE -> CONTEXT_BUILT -> STREAMING -> (COMPLETE | FAILED) -> IDLE, *)
(* an unconfigured cycle goes IDLE -> FAILED -> IDLE with no context       *)
(* built, and a failed invocation goes IDLE -> CONTEXT_BUILT -> FAILED ->  *)
(* IDLE with nothing streamed.                                             *)
PhaseStepAmended ==
    Phase(pc') # Phase(pc) =>
        \/ PhaseStepAsStated
        \/ /\ Phase(pc) = "IDLE" /\ Phase(pc') = "FAILED"
           /\ model = "None"
           /\ outcome' = "unconfigured"
           /\ conversation_context' = <<>>
        \/ /\ Phase(pc) = "CONTEXT_BUILT" /\ Phase(pc') = "FAILED"
           /\ outcome' = "invoke_failed"
           /\ consumed' = <<>>

C10_CyclePhasesByOutcome ==
    /\ [][PhaseStepAmended /\ TurnStep /\ CycleTurns]_vars
    /\ []IdleAlternates
    /\ [](model = "None" => Phase(pc) \notin {"CONTEXT_BUILT", "STREAMING", "COMPLETE"})
    /\ [](Phase(pc) = "STREAMING" => invoked)

C10_Witness ==
    /\ pc = "idle"
    /\ Len(messages) = 4
    /\ messages[2].content \in InvokeErrors
    /\ messages[4].content \in {"Hello" \o e : e \in StreamErrors}

====
